---- MODULE Spec2Model ----
(***************************************************************************)
(* Model of src/config_parser.rs: the Android font-configuration loader    *)
(* (AndroidFontConfig::parse, a fold over XML reader events) and the       *)
(* queries over the loaded family and alias lists.                         *)
(*                                                                         *)
(* Strings that the code cuts or joins (lang attributes, element text,     *)
(* font paths) are sequences of one-character strings; strings the code    *)
(* only compares (family names, element names) are TLA+ strings.           *)
(* Option<T> is a sequence of length 0 (None) or 1 (Some(v)).              *)
(***************************************************************************)
EXTENDS Integers, Sequences, FiniteSets, TLC

VARIABLES
    phase,              \* "parsing" | "loaded" | "panicked"
    current_elements,   \* parse: stack of open element names
    font_families,      \* parse local, then AndroidFontConfig.font_families
    font_aliases,       \* parse local, then AndroidFontConfig.font_aliases
    font,               \* parse: the font accumulator
    family,             \* parse: the family accumulator
    open,               \* the document: one record per open element
    elems,              \* the document: start tags read so far
    closed,             \* the document: record of every closed element
    result              \* the last query and what it returned

vars == <<phase, current_elements, font_families, font_aliases, font, family,
          open, elems, closed, result>>

----------------------------------------------------------------------------
(* Option<T> *)

None == <<>>

Some(v) == <<v>>

is_some(o) == Len(o) = 1

is_none(o) == Len(o) = 0

unwrap(o) == o[1]

Opt(S) == {None} \cup {Some(v) : v \in S}

(* Result<T, E> *)

Ok(v) == [ok |-> TRUE, val |-> v]

Err(e) == [ok |-> FALSE, val |-> e]

NotFound == Err("not found")

----------------------------------------------------------------------------
(* The data model *)

FontEntry_new ==
    [path |-> None, weight |-> None, italic |-> FALSE, fallback_for |-> None,
     index |-> 0, axis |-> <<>>]

FontFamily_new == [name |-> None, lang |-> None, variant |-> None, fonts |-> <<>>]

FontAlias_new == [name |-> "", to |-> "", weight |-> None]

FontAxis_new == [tag |-> "", stylevalue |-> 0]

RegularWeight == 400

\* is_regular with the weight looked at before the italic flag
is_regular_weight_first(f) ==
    IF is_some(f.weight) THEN unwrap(f.weight) = RegularWeight
    ELSE ~f.italic

is_regular(f) ==
    IF f.italic THEN FALSE
    ELSE IF is_some(f.weight) THEN unwrap(f.weight) = RegularWeight
    ELSE TRUE

----------------------------------------------------------------------------
(* The queries of AndroidFontConfig.  A scan that returns a font returns    *)
(* its place <<i, j>> (font j of family i), <<>> when the loop runs out;    *)
(* the query then reads path and index at that place.                       *)

Panic == [ok |-> FALSE, val |-> "panic"]

font_at(pos) == font_families[pos[1]].fonts[pos[2]]

\* (path.unwrap(), index) of one font
path_and_index(f) == <<unwrap(f.path), f.index>>

RECURSIVE default_family_scan(_)
default_family_scan(i) ==
    IF i > Len(font_families) THEN ""
    ELSE IF is_some(font_families[i].name) THEN unwrap(font_families[i].name)
    ELSE default_family_scan(i + 1)

default_family_name == default_family_scan(1)

RECURSIVE alias_scan(_, _)
alias_scan(name, i) ==
    IF i > Len(font_aliases) THEN name
    ELSE IF font_aliases[i].name = name THEN font_aliases[i].to
    ELSE alias_scan(name, i + 1)

\* the scan keeping the last alias named name, not the first
resolve_last_alias(name) ==
    LET hits == {i \in 1..Len(font_aliases) : font_aliases[i].name = name}
    IN  IF hits = {} THEN name
        ELSE font_aliases[CHOOSE i \in hits : \A j \in hits : j <= i].to

resolve_font_family_by_alias(name) == alias_scan(name, 1)

\* the inner loop with the regular test of the other scans added
RECURSIVE first_fallback_regular_font(_, _, _)
first_fallback_regular_font(fonts, name, j) ==
    IF j > Len(fonts) THEN 0
    ELSE IF /\ is_regular(fonts[j])
            /\ \/ fonts[j].fallback_for = Some(name)
               \/ fonts[j].fallback_for = None /\ name = "sans-serif"
         THEN j
         ELSE first_fallback_regular_font(fonts, name, j + 1)

\* the inner loop of font_path_by_family_and_lang: first j' >= j, or 0
RECURSIVE first_fallback_font(_, _, _)
first_fallback_font(fonts, name, j) ==
    IF j > Len(fonts) THEN 0
    ELSE IF is_some(fonts[j].fallback_for)
         THEN IF unwrap(fonts[j].fallback_for) = name THEN j
              ELSE first_fallback_font(fonts, name, j + 1)
         ELSE IF name = "sans-serif" THEN j
              ELSE first_fallback_font(fonts, name, j + 1)

RECURSIVE fallback_family_scan(_, _, _)
fallback_family_scan(name, lang, i) ==
    IF i > Len(font_families) THEN <<>>
    ELSE LET fam == font_families[i]
             j == first_fallback_font(fam.fonts, name, 1)
         IN  IF is_some(fam.lang) /\ unwrap(fam.lang) = lang /\ j > 0
             THEN <<i, j>>
             ELSE fallback_family_scan(name, lang, i + 1)

font_path_by_family_and_lang(name, lang) ==
    LET pos == fallback_family_scan(name, lang, 1)
    IN  IF pos = <<>> THEN NotFound
        ELSE IF is_none(font_at(pos).path) THEN Panic
        ELSE Ok(path_and_index(font_at(pos)))

\* the inner loops of default_font_path_by_lang: first j' >= j, or 0
RECURSIVE first_regular_font(_, _)
first_regular_font(fonts, j) ==
    IF j > Len(fonts) THEN 0
    ELSE IF is_regular(fonts[j]) /\ is_some(fonts[j].path) THEN j
    ELSE first_regular_font(fonts, j + 1)

\* the scan giving up after the first family that matches lang
RECURSIVE default_font_scan_first_family(_, _)
default_font_scan_first_family(lang, i) ==
    IF i > Len(font_families) THEN <<>>
    ELSE LET fam == font_families[i]
             j == first_regular_font(fam.fonts, 1)
         IN  IF fam.lang = Some(lang) \/ (fam.lang = None /\ lang = <<>>)
             THEN IF j > 0 THEN <<i, j>> ELSE <<>>
             ELSE default_font_scan_first_family(lang, i + 1)

RECURSIVE default_font_scan(_, _)
default_font_scan(lang, i) ==
    IF i > Len(font_families) THEN <<>>
    ELSE LET fam == font_families[i]
             j == first_regular_font(fam.fonts, 1)
         IN  IF is_some(fam.lang)
             THEN IF unwrap(fam.lang) = lang /\ j > 0 THEN <<i, j>>
                  ELSE default_font_scan(lang, i + 1)
             ELSE IF lang = <<>> /\ j > 0 THEN <<i, j>>
                  ELSE default_font_scan(lang, i + 1)

default_font_path_by_lang(lang) ==
    LET pos == default_font_scan(lang, 1)
    IN  IF pos = <<>> THEN NotFound ELSE Ok(path_and_index(font_at(pos)))

named_family_filter(f) == is_some(f.path) /\ is_regular(f)

fallback_filter(f, family_name) ==
    \/ is_some(f.fallback_for) /\ unwrap(f.fallback_for) = family_name
    \/ is_none(f.fallback_for) /\ family_name = "sans-serif"

\* places pushed for the named family i, fonts j.. in order
RECURSIVE named_family_places(_, _)
named_family_places(i, j) ==
    IF j > Len(font_families[i].fonts) THEN <<>>
    ELSE (IF named_family_filter(font_families[i].fonts[j])
          THEN <<(<<i, j>>)>> ELSE <<>>)
         \o named_family_places(i, j + 1)

\* places pushed for the nameless family i, fonts j.. in order
RECURSIVE fallback_places(_, _, _)
fallback_places(family_name, i, j) ==
    IF j > Len(font_families[i].fonts) THEN <<>>
    ELSE (IF fallback_filter(font_families[i].fonts[j], family_name)
          THEN <<(<<i, j>>)>> ELSE <<>>)
         \o fallback_places(family_name, i, j + 1)

\* the places select_family_by_name pushes for family i
select_from_family(family_name, i) ==
    IF is_some(font_families[i].name)
    THEN IF family_name = unwrap(font_families[i].name)
         THEN named_family_places(i, 1)
         ELSE <<>>
    ELSE fallback_places(family_name, i, 1)

\* the scan stopping at the first family that gives a font
RECURSIVE select_scan_first(_, _)
select_scan_first(family_name, i) ==
    IF i > Len(font_families) THEN <<>>
    ELSE IF select_from_family(family_name, i) # <<>>
         THEN select_from_family(family_name, i)
         ELSE select_scan_first(family_name, i + 1)

RECURSIVE select_scan(_, _)
select_scan(family_name, i) ==
    IF i > Len(font_families) THEN <<>>
    ELSE select_from_family(family_name, i) \o select_scan(family_name, i + 1)

\* select_family_by_name without line 396
select_places_unresolved(family_name) == select_scan(family_name, 1)

\* the places pushed by select_family_by_name, in push order
select_places(family_name) ==
    select_scan(resolve_font_family_by_alias(family_name), 1)

select_family_by_name(family_name) ==
    LET places == select_places(family_name)
    IN  IF \E k \in 1..Len(places) : is_none(font_at(places[k]).path) THEN Panic
        ELSE IF Len(places) > 0
        THEN Ok([k \in 1..Len(places) |-> path_and_index(font_at(places[k]))])
        ELSE NotFound

RECURSIVE flatten_fonts(_)
flatten_fonts(i) ==
    IF i > Len(font_families) THEN <<>>
    ELSE font_families[i].fonts \o flatten_fonts(i + 1)

all_font_paths ==
    LET with_path == SelectSeq(flatten_fonts(1), LAMBDA f : is_some(f.path))
    IN  [k \in 1..Len(with_path) |-> path_and_index(with_path[k])]

all_families ==
    LET named == SelectSeq(font_families, LAMBDA f : is_some(f.name))
    IN  [k \in 1..Len(named) |-> unwrap(named[k].name)]
        \o [k \in 1..Len(font_aliases) |-> font_aliases[k].name]

----------------------------------------------------------------------------
(* Strings as sequences of characters *)

contains(s, c) == \E k \in 1..Len(s) : s[k] = c

\* str::split(sep): the pieces between separators, empty pieces included
RECURSIVE split_from(_, _, _, _)
split_from(s, sep, k, piece) ==
    IF k > Len(s) THEN <<piece>>
    ELSE IF s[k] = sep THEN <<piece>> \o split_from(s, sep, k + 1, <<>>)
    ELSE split_from(s, sep, k + 1, Append(piece, s[k]))

split(s, sep) == split_from(s, sep, 1, <<>>)

RECURSIVE trim_start(_)
trim_start(s) == IF s # <<>> /\ Head(s) = " " THEN trim_start(Tail(s)) ELSE s

RECURSIVE trim_end(_)
trim_end(s) ==
    IF s # <<>> /\ s[Len(s)] = " " THEN trim_end(SubSeq(s, 1, Len(s) - 1)) ELSE s

trim(s) == trim_end(trim_start(s))

\* "/system/fonts/".to_owned() + ..., the prefix kept as one symbol
SystemFonts == <<"/system/fonts/">>

----------------------------------------------------------------------------
(* The attribute parsers.  An attribute list is a record of Option values,  *)
(* one field per attribute the parser matches.  weight, index and           *)
(* stylevalue are given as the numbers their numerals parse to (a value     *)
(* that is no numeral stops the load in parse().unwrap() and is not among   *)
(* the inputs).                                                             *)

parse_alias(a) ==
    [name   |-> IF is_some(a.name) THEN unwrap(a.name) ELSE FontAlias_new.name,
     to     |-> IF is_some(a.to) THEN unwrap(a.to) ELSE FontAlias_new.to,
     weight |-> a.weight]

parse_family(a) ==
    [name |-> a.name, lang |-> a.lang, variant |-> a.variant,
     fonts |-> FontFamily_new.fonts]

parse_font(a) ==
    [path         |-> FontEntry_new.path,
     weight       |-> a.weight,
     italic       |-> IF a.style = Some("normal") THEN FALSE
                      ELSE IF a.style = Some("italic") THEN TRUE
                      ELSE FontEntry_new.italic,
     fallback_for |-> a.fallbackFor,
     index        |-> IF is_some(a.index) THEN unwrap(a.index)
                      ELSE FontEntry_new.index,
     axis         |-> FontEntry_new.axis]

parse_axis(a) ==
    [tag        |-> IF is_some(a.tag) THEN unwrap(a.tag) ELSE FontAxis_new.tag,
     stylevalue |-> IF is_some(a.stylevalue) THEN unwrap(a.stylevalue)
                    ELSE FontAxis_new.stylevalue]

\* the branches of lines 267 and 274 the other way round
family_clones_space_first(fam) ==
    LET with_lang(tag) == [fam EXCEPT !.lang = Some(tag)]
        clones(tags) == [k \in 1..Len(tags) |-> with_lang(tags[k])]
    IN  IF is_some(fam.lang)
        THEN IF contains(unwrap(fam.lang), " ")
             THEN clones(split(unwrap(fam.lang), " "))
             ELSE IF contains(unwrap(fam.lang), ",")
             THEN clones(split(unwrap(fam.lang), ","))
             ELSE <<fam>>
        ELSE <<fam>>

\* the families pushed when a family element ends (lines 265-286)
family_clones(fam) ==
    LET with_lang(tag) == [fam EXCEPT !.lang = Some(tag)]
        clones(tags) == [k \in 1..Len(tags) |-> with_lang(tags[k])]
    IN  IF is_some(fam.lang)
        THEN IF contains(unwrap(fam.lang), ",")
             THEN clones(split(unwrap(fam.lang), ","))
             ELSE IF contains(unwrap(fam.lang), " ")
             THEN clones(split(unwrap(fam.lang), " "))
             ELSE <<fam>>
        ELSE <<fam>>

----------------------------------------------------------------------------
(* Bounds and input sets *)

\* start tags in one manifest
MaxElems == 4

FamilyNames == {"sans-serif", "serif"}

\* lang attributes: one tag, comma list, space list, both separators
LangAttrs ==
    {<<"j">>, <<"j", ",", "z">>, <<"j", " ", "z">>, <<"j", ",", " ", "z">>}

AliasAttrs == {[name |-> Some("arial"), to |-> Some("sans-serif"), weight |-> Some(700)]}

FamilyAttrs ==
    [name : {None}, lang : Opt(LangAttrs), variant : {None}]
    \cup {[name |-> Some("sans-serif"), lang |-> None, variant |-> Some("compact")]}

FontAttrs ==
    {[weight |-> None, style |-> None, fallbackFor |-> None, index |-> None],
     [weight |-> Some(700), style |-> Some("italic"), fallbackFor |-> Some("serif"),
      index |-> Some(2)]}

AxisAttrs == {[tag |-> Some("wght"), stylevalue |-> Some(400)]}

\* element names the loader has no case for
OtherNames == {"familyset"}

\* text content with a character that is not white space (the reader
\* reports white space alone as XmlEvent::Whitespace)
Texts == {<<"r">>, <<" ", "b", " ">>}

QueryNames == {"sans-serif", "serif", "arial"}

QueryLangs == {<<>>, <<"j">>}

----------------------------------------------------------------------------
(* The loader: AndroidFontConfig::parse, one action per reader event.  The  *)
(* reader yields the events of a well-formed document: one root, end tags   *)
(* matching start tags, text only inside an element.                        *)

\* at: the places of the fonts whose path and index the query read out
NoResult == [op |-> "none", arg |-> <<>>, val |-> <<>>, at |-> <<>>]

Init ==
    /\ phase = "parsing"
    /\ current_elements = <<>>
    /\ font_families = <<>>
    /\ font_aliases = <<>>
    /\ font = FontEntry_new
    /\ family = FontFamily_new
    /\ open = <<>>
    /\ elems = 0
    /\ closed = {}
    /\ result = NoResult

last(stack) == stack[Len(stack)]

pop(stack) == SubSeq(stack, 1, Len(stack) - 1)

\* what every XmlEvent::StartElement does first (line 234), and the reader
StartElement(name, index) ==
    /\ phase = "parsing"
    /\ elems < MaxElems
    /\ open = <<>> => elems = 0
    /\ current_elements' = Append(current_elements, name)
    /\ open' = Append(open, [tag |-> name, index |-> index, text |-> None])
    /\ elems' = elems + 1
    /\ UNCHANGED <<phase, font_families, closed, result>>

StartAlias ==
    \E a \in AliasAttrs :
        /\ StartElement("alias", 0)
        /\ font_aliases' = Append(font_aliases, parse_alias(a))
        /\ UNCHANGED <<font, family>>

StartFamily ==
    \E a \in FamilyAttrs :
        /\ StartElement("family", 0)
        /\ family' = parse_family(a)
        /\ UNCHANGED <<font_aliases, font>>

StartFont ==
    \E a \in FontAttrs :
        /\ StartElement("font", parse_font(a).index)
        /\ font' = parse_font(a)
        /\ UNCHANGED <<font_aliases, family>>

StartAxis ==
    \E a \in AxisAttrs :
        /\ StartElement("axis", 0)
        /\ font' = [font EXCEPT !.axis = Append(@, parse_axis(a))]
        /\ UNCHANGED <<font_aliases, family>>

StartOther ==
    \E name \in OtherNames :
        /\ StartElement(name, 0)
        /\ UNCHANGED <<font_aliases, font, family>>

\* what every XmlEvent::EndElement does first (line 256), and the reader;
\* the iterator ends after the root's end tag and parse returns
EndElement(name) ==
    /\ phase = "parsing"
    /\ open # <<>>
    /\ last(open).tag = name
    /\ current_elements' = pop(current_elements)
    /\ open' = pop(open)
    /\ UNCHANGED <<font_aliases, font, elems, result>>

\* the document's record of a font element as it closes
closed_font ==
    [text |-> last(open).text, index |-> last(open).index,
     in_family |-> Len(open) > 1 /\ open[Len(open) - 1].tag = "family"]

EndFont ==
    /\ EndElement("font")
    /\ closed' = closed \cup {closed_font}
    /\ UNCHANGED font_families
    /\ IF is_some(font.path)
       THEN IF current_elements' = <<>>
            THEN \* last().unwrap() on the empty stack
                 /\ phase' = "panicked"
                 /\ UNCHANGED family
            ELSE /\ phase' = "parsing"
                 /\ family' = IF last(current_elements') = "family"
                              THEN [family EXCEPT !.fonts = Append(@, font)]
                              ELSE family
       ELSE /\ phase' = IF current_elements' = <<>> THEN "loaded" ELSE "parsing"
            /\ UNCHANGED family

EndFamily ==
    /\ EndElement("family")
    /\ font_families' = font_families \o family_clones(family)
    /\ phase' = IF current_elements' = <<>> THEN "loaded" ELSE "parsing"
    /\ UNCHANGED <<family, closed>>

EndOther ==
    \E name \in {"alias", "axis"} \cup OtherNames :
        /\ EndElement(name)
        /\ phase' = IF current_elements' = <<>> THEN "loaded" ELSE "parsing"
        /\ UNCHANGED <<font_families, family, closed>>

Characters ==
    \E s \in Texts :
        /\ phase = "parsing"
        /\ open # <<>>
        /\ font' = IF last(current_elements) = "font"
                   THEN [font EXCEPT !.path = Some(SystemFonts \o trim(s))]
                   ELSE font
        /\ open' = IF last(open).tag = "font"
                   THEN [open EXCEPT ![Len(open)].text = Some(s)]
                   ELSE open
        /\ UNCHANGED <<phase, current_elements, font_families, font_aliases,
                       family, elems, closed, result>>

----------------------------------------------------------------------------
(* The queries, on the loaded configuration *)

\* The queries take &self and leave the configuration as it is, so what a
\* query returns cannot depend on the queries before it: a behaviour makes one.
Query(op, arg, val, at) ==
    /\ phase = "loaded"
    /\ result.op = "none"
    /\ result' = [op |-> op, arg |-> arg, val |-> val, at |-> at]
    /\ UNCHANGED <<phase, current_elements, font_families, font_aliases, font,
                   family, open, elems, closed>>

one_place(pos) == IF pos = <<>> THEN <<>> ELSE <<pos>>

DefaultFamilyName == Query("default_family_name", <<>>, default_family_name, <<>>)

ResolveAlias ==
    \E n \in QueryNames :
        Query("resolve_font_family_by_alias", <<n>>, resolve_font_family_by_alias(n),
              <<>>)

FontPathByFamilyAndLang ==
    \E n \in QueryNames, l \in QueryLangs :
        Query("font_path_by_family_and_lang", <<n, l>>,
              font_path_by_family_and_lang(n, l),
              one_place(fallback_family_scan(n, l, 1)))

DefaultFontPathByLang ==
    \E l \in QueryLangs :
        Query("default_font_path_by_lang", <<l>>, default_font_path_by_lang(l),
              one_place(default_font_scan(l, 1)))

AllFontPaths == Query("all_font_paths", <<>>, all_font_paths, <<>>)

AllFamilies == Query("all_families", <<>>, all_families, <<>>)

SelectFamilyByName ==
    \E n \in QueryNames :
        Query("select_family_by_name", <<n>>, select_family_by_name(n),
              select_places(n))

Next ==
    \/ StartAlias
    \/ StartFamily
    \/ StartFont
    \/ StartAxis
    \/ StartOther
    \/ EndFont
    \/ EndFamily
    \/ EndOther
    \/ Characters
    \/ DefaultFamilyName
    \/ ResolveAlias
    \/ FontPathByFamilyAndLang
    \/ DefaultFontPathByLang
    \/ AllFontPaths
    \/ AllFamilies
    \/ SelectFamilyByName

Spec == Init /\ [][Next]_vars

----------------------------------------------------------------------------
(* The queries on their own: the configuration is drawn from bounded sets   *)
(* of configurations the loader can return (every stored font has a path,   *)
(* no stored language tag holds a comma).                                   *)

\* family and font records in one configuration
MaxRecords == 4

\* aliases in one configuration
MaxAliases == 2

\* language tags of stored families: the empty tag and one tag
StoredLangs == {<<>>, <<"j">>}

\* nameless families with or without a language tag, named families
FamilyHeads ==
    [name : {None}, lang : Opt(StoredLangs)]
    \cup [name : {Some(n) : n \in FamilyNames}, lang : {None}]

FontStyles ==
    [weight : {None, Some(400), Some(700)}, italic : BOOLEAN,
     fallback_for : {None, Some("serif")}]

Aliases == [name : {"arial", "serif"}, to : FamilyNames, weight : {None}]

\* font t of the manifest: face t - 1 of one font collection
StoredFont(style, t) ==
    [path |-> Some(SystemFonts \o <<"r">>), weight |-> style.weight,
     italic |-> style.italic, fallback_for |-> style.fallback_for,
     index |-> t - 1, axis |-> <<>>]

\* the families with the given heads, fonts 1..k handed out in order:
\* own[t] is the family of font t
StoredFamilies(heads, styles, own) ==
    [i \in 1..Len(heads) |->
        LET before == Cardinality({t \in 1..Len(styles) : own[t] < i})
            mine == Cardinality({t \in 1..Len(styles) : own[t] = i})
        IN  [name |-> heads[i].name, lang |-> heads[i].lang, variant |-> None,
             fonts |-> [j \in 1..mine |-> StoredFont(styles[before + j], before + j)]]]

Loaded ==
    /\ phase = "loaded"
    /\ current_elements = <<>>
    /\ font = FontEntry_new
    /\ family = FontFamily_new
    /\ open = <<>>
    /\ elems = 0
    /\ closed = {}
    /\ result = NoResult

\* any families within MaxRecords, with the alias of the tests
InitFamilies ==
    /\ Loaded
    /\ font_aliases = <<[name |-> "arial", to |-> "sans-serif", weight |-> None]>>
    /\ \E m \in 0..MaxRecords : \E k \in 0..(MaxRecords - m) :
        \E heads \in [1..m -> FamilyHeads], styles \in [1..k -> FontStyles],
           own \in [1..k -> 1..m] :
            /\ \A t \in 1..(k - 1) : own[t] <= own[t + 1]
            /\ font_families = StoredFamilies(heads, styles, own)

\* any aliases within MaxAliases, over no family or one family with one font
InitAliases ==
    /\ Loaded
    /\ \E n \in 0..MaxAliases : font_aliases \in [1..n -> Aliases]
    /\ \/ font_families = <<>>
       \/ \E head \in FamilyHeads, style \in FontStyles :
            font_families = StoredFamilies(<<head>>, <<style>>, <<1>>)

InitQuery == InitFamilies \/ InitAliases

NextQuery ==
    \/ DefaultFamilyName
    \/ ResolveAlias
    \/ FontPathByFamilyAndLang
    \/ DefaultFontPathByLang
    \/ AllFontPaths
    \/ AllFamilies
    \/ SelectFamilyByName

SpecQuery == InitQuery /\ [][NextQuery]_vars

----------------------------------------------------------------------------
(* What the claims are stated with *)

Places ==
    UNION {{<<i, j>> : j \in 1..Len(font_families[i].fonts)} :
           i \in 1..Len(font_families)}

Before(p, q) == p[1] < q[1] \/ (p[1] = q[1] /\ p[2] < q[2])

\* the place of set P with no place of P before it
FirstOf(P) == CHOOSE p \in P : \A q \in P : q = p \/ Before(p, q)

\* the position of place p when P is put in manifest order
Rank(P, p) == 1 + Cardinality({q \in P : Before(q, p)})

Regular(f) == ~f.italic /\ (f.weight = None \/ f.weight = Some(400))

Entry(p) == <<font_at(p).path[1], font_at(p).index>>

FallbackFor(f, name) ==
    f.fallback_for = Some(name) \/ (f.fallback_for = None /\ name = "sans-serif")

AliasesNamed(x) == {i \in 1..Len(font_aliases) : font_aliases[i].name = x}

\* the target of the first alias named x, x itself when there is none
Resolved(x) ==
    IF AliasesNamed(x) = {} THEN x
    ELSE font_aliases[CHOOSE i \in AliasesNamed(x) :
                          \A j \in AliasesNamed(x) : i <= j].to

\* the fonts select_family_by_name is to return for the resolved name r
Selected(r) ==
    {p \in Places :
        LET fam == font_families[p[1]]
        IN  IF fam.name # None
            THEN fam.name = Some(r) /\ Regular(font_at(p)) /\ font_at(p).path # None
            ELSE FallbackFor(font_at(p), r)}

\* val lists the entries of the places P in manifest order, or is the
\* not-found error when P is empty
ListsInOrder(val, P) ==
    IF P = {} THEN val = NotFound
    ELSE /\ val.ok
         /\ Len(val.val) = Cardinality(P)
         /\ \A p \in P : val.val[Rank(P, p)] = Entry(p)

\* val is the entry of the first place of P, or the not-found error
IsFirstOf(val, P) == IF P = {} THEN val = NotFound ELSE val = Ok(Entry(FirstOf(P)))

----------------------------------------------------------------------------
\* C1: select_family_by_name(n) resolves n to r through the aliases and
\* returns Ok of the list, in manifest order, of (path, index) of every
\* regular font with a path of each family named r and of every font of each
\* nameless family whose fallbackFor is r, or is absent while r is
\* "sans-serif"; it returns "not found" exactly when that list is empty.
C1_SelectFamilyByName ==
    result.op = "select_family_by_name" =>
        ListsInOrder(result.val, Selected(Resolved(result.arg[1])))

\* an alias name selects fonts of a named family and of a nameless one
C1_Witness ==
    /\ result.op = "select_family_by_name"
    /\ result.arg[1] = "arial"
    /\ result.val.ok
    /\ \E k, l \in 1..Len(result.at) :
        /\ font_families[result.at[k][1]].name # None
        /\ font_families[result.at[l][1]].name = None

\* families whose language tag is lang
Tagged(lang) == {i \in 1..Len(font_families) : font_families[i].lang = Some(lang)}

Untagged == {i \in 1..Len(font_families) : font_families[i].lang = None}

RegularIn(F) ==
    {p \in Places : p[1] \in F /\ Regular(font_at(p)) /\ font_at(p).path # None}

FirstFamily(F) == {i \in F : \A j \in F : i <= j}

\* C2 as claimed: default_font_path_by_lang(lang) returns the first regular
\* font with a path of the first family whose language tag equals lang (of
\* the first family without a language tag when lang is empty), "not found"
\* when there is no such font.
C2_FirstFamilyOnly ==
    result.op = "default_font_path_by_lang" =>
        LET lang == result.arg[1]
        IN  IsFirstOf(result.val,
                      RegularIn(FirstFamily(IF lang = <<>> THEN Untagged
                                            ELSE Tagged(lang))))

\* C2 as amended: default_font_path_by_lang(lang) returns the first regular
\* font with a path found in manifest order in any family whose language tag
\* equals lang, and for the empty lang also in any family without a language
\* tag; "not found" when no such family has such a font.
C2_DefaultFontPathByLang ==
    result.op = "default_font_path_by_lang" =>
        LET lang == result.arg[1]
        IN  IsFirstOf(result.val,
                      RegularIn(Tagged(lang)
                                \cup (IF lang = <<>> THEN Untagged ELSE {})))

\* the font comes from a later family than the first one tagged lang
C2_Witness ==
    /\ result.op = "default_font_path_by_lang"
    /\ result.arg[1] # <<>>
    /\ result.val.ok
    /\ \E i \in Tagged(result.arg[1]) : i < result.at[1][1]

\* C3: font_path_by_family_and_lang(name, lang) returns the first font, in
\* manifest order over the families whose language tag is present and equals
\* lang, whose fallbackFor is name or is absent while name is "sans-serif",
\* with no alias resolution and no regular filter; "not found" otherwise.
C3_FontPathByFamilyAndLang ==
    result.op = "font_path_by_family_and_lang" =>
        IsFirstOf(result.val,
                  {p \in Places : /\ p[1] \in Tagged(result.arg[2])
                                  /\ FallbackFor(font_at(p), result.arg[1])})

\* a font that is not regular is returned after a font that does not match
C3_Witness ==
    /\ result.op = "font_path_by_family_and_lang"
    /\ result.val.ok
    /\ ~Regular(font_at(result.at[1]))
    /\ result.at[1][2] > 1

\* C7: is_regular holds iff the font is not italic and its weight is absent
\* or 400, and no other font is returned by default_font_path_by_lang or
\* taken from a named family by select_family_by_name.
C7_RegularOnly ==
    /\ \A p \in Places : is_regular(font_at(p)) <=> Regular(font_at(p))
    /\ result.op = "default_font_path_by_lang" =>
        \A k \in 1..Len(result.at) : Regular(font_at(result.at[k]))
    /\ result.op = "select_family_by_name" =>
        \A k \in 1..Len(result.at) :
            font_families[result.at[k][1]].name # None
                => Regular(font_at(result.at[k]))

\* the default font of a family comes after an italic and a bold font
C7_Witness ==
    /\ result.op = "default_font_path_by_lang"
    /\ result.val.ok
    /\ \E j, k \in 1..(result.at[1][2] - 1) :
        /\ font_families[result.at[1][1]].fonts[j].italic
        /\ font_families[result.at[1][1]].fonts[k].weight = Some(700)

\* C8: resolve_font_family_by_alias(x) returns the target of the first alias
\* named x and x itself when no alias is named x; the target is returned as
\* it is, also when it is an alias name itself.
C8_ResolveAlias ==
    result.op = "resolve_font_family_by_alias" =>
        LET x == result.arg[1]
        IN  IF \E i \in 1..Len(font_aliases) : font_aliases[i].name = x
            THEN \E i \in AliasesNamed(x) :
                    /\ \A j \in 1..(i - 1) : font_aliases[j].name # x
                    /\ result.val = font_aliases[i].to
            ELSE result.val = x

\* two aliases share the name asked for, and the target returned is an
\* alias name with another target
C8_Witness ==
    /\ result.op = "resolve_font_family_by_alias"
    /\ Cardinality(AliasesNamed(result.arg[1])) > 1
    /\ \E i \in AliasesNamed(result.val) : font_aliases[i].to # result.val

\* C9 as claimed: for every alias (a, t) of the alias list,
\* select_family_by_name(a) returns what select_family_by_name(t) returns.
C9_EveryAlias ==
    result.op = "select_family_by_name" =>
        \A i \in AliasesNamed(result.arg[1]) :
            result.val = select_family_by_name(font_aliases[i].to)

\* C9 as amended: for every alias (a, t) that is the first alias named a and
\* whose target t is not itself the name of an alias,
\* select_family_by_name(a) returns what select_family_by_name(t) returns.
C9_FirstAliasToFamily ==
    result.op = "select_family_by_name" =>
        \A i \in AliasesNamed(result.arg[1]) :
            (/\ \A j \in AliasesNamed(result.arg[1]) : i <= j
             /\ AliasesNamed(font_aliases[i].to) = {})
                => result.val = select_family_by_name(font_aliases[i].to)

\* an alias name, asked for, selects the fonts of its target
C9_Witness ==
    /\ result.op = "select_family_by_name"
    /\ AliasesNamed(result.arg[1]) # {}
    /\ AliasesNamed(Resolved(result.arg[1])) = {}
    /\ result.val.ok

----------------------------------------------------------------------------
(* The loader's claims *)

Has(s, c) == \E k \in 1..Len(s) : s[k] = c

CountOf(s, c) == Cardinality({k \in 1..Len(s) : s[k] = c})

RECURSIVE Join(_, _)
Join(tags, sep) ==
    IF Len(tags) = 1 THEN tags[1]
    ELSE tags[1] \o <<sep>> \o Join(Tail(tags), sep)

\* the step taken is the end of an element named tag
Ends(tag) ==
    /\ phase = "parsing"
    /\ open # <<>>
    /\ last(open).tag = tag
    /\ Len(open') = Len(open) - 1

\* added is one family per tag of fam's lang attribute, in tag order, each
\* fam with that tag for its language; fam itself when there is nothing to cut
OnePerTag(added, fam) ==
    IF fam.lang = None \/ (~Has(fam.lang[1], ",") /\ ~Has(fam.lang[1], " "))
    THEN added = <<fam>>
    ELSE LET sep == IF Has(fam.lang[1], ",") THEN "," ELSE " "
         IN  /\ Len(added) = CountOf(fam.lang[1], sep) + 1
             /\ \A k \in 1..Len(added) :
                    /\ added[k].lang # None
                    /\ ~Has(added[k].lang[1], sep)
                    /\ added[k] = [fam EXCEPT !.lang = added[k].lang]
             /\ Join([k \in 1..Len(added) |-> added[k].lang[1]], sep) = fam.lang[1]

C5_NoMultiTagFamily ==
    \A i \in 1..Len(font_families) :
        font_families[i].lang # None
            => ~Has(font_families[i].lang[1], ",") /\ ~Has(font_families[i].lang[1], " ")

\* the entry all_font_paths is to hold for a closed font element with text
EntryOf(e) == <<SystemFonts \o trim(e.text[1]), e.index>>

\* C6: after a load, all_font_paths holds an entry (prefix + trimmed text,
\* index) for every font element with text that is a direct child of a
\* family element, and no entry for any other font element.
C6_RoundTrip ==
    result.op = "all_font_paths" =>
        {result.val[k] : k \in 1..Len(result.val)}
            = {EntryOf(e) : e \in {c \in closed : c.in_family /\ c.text # None}}

\* C10: at every end of a font element the font accumulator is appended to
\* the current family's fonts exactly when its path is set and the enclosing
\* element is family; otherwise the font is dropped and the load goes on
\* without failing; every font of the loaded model has a path.
C10_EndOfFont ==
    /\ [][Ends("font") =>
            /\ phase' # "panicked"
            /\ IF /\ font.path # None
                  /\ Len(current_elements) > 1
                  /\ current_elements[Len(current_elements) - 1] = "family"
               THEN family' = [family EXCEPT !.fonts = Append(@, font)]
               ELSE family' = family]_vars
    /\ [](\A p \in Places : font_at(p).path # None)

====
